---- MODULE Spec2Model ----
(***************************************************************************)
(* OffloadingScheduler (opencda/core/task_offloading/offloading_scheduler) *)
(* as a state machine: one offload invocation at a time walks the task     *)
(* types, gates on coverage, collects metrics, decides a route, and then   *)
(* replays the accumulated batch through a thread pool.                    *)
(***************************************************************************)
EXTENDS Integers, Sequences, FiniteSets, TLC

VARIABLES
    counter,        \* instance attribute `counter` of the instances that have one
    invocations,    \* per instance: offload calls started so far (history)
    completed,      \* per instance: offload calls that returned normally (history)
    pc,             \* position of the running invocation, "idle" when none runs
    self,           \* the instance the running (or last) invocation is on
    policy,         \* "optimal" | "nearest": which offload method runs
    app,            \* index into app_types of the task type decided last
    list_of_urls,   \* the batch accumulated by this invocation
    nearest_bs,     \* find_nearest_base_station(): <<>> (None) or <<id, distance>>
    bs_hostname,    \* role of the entry station
    optimal_edge,   \* node selected by the last routing decision
    outcome,        \* route taken for the task type decided last
    cloud_posts,    \* cloud sub-paths POSTed for the task type decided last
    replays,        \* range(self.counter), read once at the replay loop
    rep,            \* replay passes completed
    futures,        \* per pass of this invocation, the state of each future
    posts,          \* dispatcher POST calls started by this invocation (history)
    exc,            \* where the last invocation raised, or "none"
    fn_pc,          \* function harness: "off" | "input" | "collected" | "routed"
    fn_resps,       \* function harness: the answers get_metrics receives
    fn_metrics,     \* function harness: what get_metrics gave
    fn_route,       \* function harness: the routing decision on fn_metrics
    rk_pc,          \* ranker harness: "off" | "input" | "sorted" | "found"
    rk_actors,      \* ranker harness: ids of the base stations, in get_actors() order
    rk_world,       \* ranker harness: bs.id -> distance to the vehicle
    rk_sorted,      \* ranker harness: what sort_base_stations gave
    rk_nearest      \* ranker harness: what find_nearest_base_station gave

vars == <<counter, invocations, completed, pc, self, policy, app, list_of_urls,
          nearest_bs, bs_hostname, optimal_edge, outcome, cloud_posts, replays,
          rep, futures, posts, exc, fn_pc, fn_resps, fn_metrics, fn_route,
          rk_pc, rk_actors, rk_world, rk_sorted, rk_nearest>>

sched_vars == <<counter, invocations, completed, pc, self, policy, app, list_of_urls,
                nearest_bs, bs_hostname, optimal_edge, outcome, cloud_posts, replays,
                rep, futures, posts, exc>>

rk_vars == <<rk_pc, rk_actors, rk_world, rk_sorted, rk_nearest>>

fn_vars == <<fn_pc, fn_resps, fn_metrics, fn_route, rk_vars>>

-----------------------------------------------------------------------------
(* Bounds of the model *)

MaxInvocations == 2
MaxPods == 2

-----------------------------------------------------------------------------
(* Class attributes and configuration *)

host_ips ==
    [edge1 |-> "138.246.237.7", edge2 |-> "138.246.236.237", edge3 |-> "138.246.237.5"]

\* host_ips.keys() in dict order
host_order == <<"edge1", "edge2", "edge3">>

\* app_types.keys() in dict order; a task type's cloud endpoint is identified
\* by the task type
app_types == <<"mobilenet", "squeezenet", "shufflenet", "binaryalert">>

time_limit == 15
proxy_port == 8280
metric_port == 8180
class_counter == 1
bs_coverage_thresh == 120
max_workers == 4

Instances == {"A", "B"}

\* the constructor argument base_station_roles: station 2 has a role that
\* host_ips does not know, station 3 has no role
BSIds == {1, 2, 3}
base_station_roles == (1 :> "edge1") @@ (2 :> "edge4")

-----------------------------------------------------------------------------
(* The environment: world snapshots and network answers *)

Dists == {bs_coverage_thresh - 20, bs_coverage_thresh, bs_coverage_thresh + 20}

\* what get_actors().filter("static.prop.box01") and dist() can give:
\* bs.id -> distance to the vehicle
Worlds == UNION {[S -> Dists] : S \in SUBSET BSIds}

P50Vals == {10, 20}

RECURSIVE SeqsUpTo(_, _)
SeqsUpTo(S, n) ==
    IF n = 0 THEN {<<>>}
    ELSE LET shorter == SeqsUpTo(S, n - 1)
         IN  shorter \cup {Append(s, x) : s \in {t \in shorter : Len(t) = n - 1}, x \in S}

\* an answer to a metrics POST: the call raises (target unreachable), or a
\* response with a status code and a JSON body {pod_number, pod_instances};
\* pod_instances is given by its p50_res_time values
Unreachable == [raises |-> TRUE, status_code |-> 0, pod_number |-> 0, pod_instances |-> <<>>]
Status(code, n, ps) ==
    [raises |-> FALSE, status_code |-> code, pod_number |-> n, pod_instances |-> ps]

MetricsResponses ==
    {Unreachable, Status(500, 0, <<>>)}
    \cup {Status(200, n, ps) : n \in 0..MaxPods, ps \in SeqsUpTo(P50Vals, MaxPods)}

\* the answers the scheduler runs explore: one of each kind, with mean
\* latencies below, at and above time_limit
FewMetricsResponses ==
    {Unreachable, Status(500, 0, <<>>), Status(200, 0, <<>>),
     Status(200, 1, <<10>>), Status(200, 2, <<10, 20>>), Status(200, 1, <<20>>)}

-----------------------------------------------------------------------------
(* Helpers *)

RECURSIVE SumSeq(_)
SumSeq(s) == IF s = <<>> THEN 0 ELSE Head(s) + SumSeq(Tail(s))

\* a mean latency res_total / pod_num is kept as <<res_total, pod_num>>, pod_num >= 1
LatLess(x, y) == x[1] * y[2] < y[1] * x[2]
LatEq(x, y) == x[1] * y[2] = y[1] * x[2]
LatAbove(x, limit) == x[1] > limit * x[2]

\* the two sort keys of the code: (kv[1], kv[0]) over (id, distance) items,
\* and m[1] over (node, mean latency) items
KeyLessDistanceOnly(key, a, b) ==
    IF key = "dist_id" THEN a[2] < b[2] ELSE LatLess(a[2], b[2])
KeyLess(key, a, b) ==
    IF key = "dist_id" THEN a[2] < b[2] \/ (a[2] = b[2] /\ a[1] < b[1])
    ELSE LatLess(a[2], b[2])

\* Python's sorted(): a stable sort, by insertion after every element that is
\* not greater
RECURSIVE InsertSorted(_, _, _)
InsertSorted(x, s, key) ==
    IF s = <<>> THEN <<x>>
    ELSE IF KeyLess(key, x, Head(s)) THEN <<x>> \o s
         ELSE <<Head(s)>> \o InsertSorted(x, Tail(s), key)

RECURSIVE Sorted(_, _)
Sorted(s, key) ==
    IF s = <<>> THEN <<>>
    ELSE InsertSorted(s[Len(s)], Sorted(SubSeq(s, 1, Len(s) - 1), key), key)

\* dict.items() of a dict whose keys are integers, in ascending key order
RECURSIVE Items(_)
Items(d) ==
    IF DOMAIN d = {} THEN <<>>
    ELSE LET k == CHOOSE k \in DOMAIN d : \A j \in DOMAIN d : k <= j
         IN  <<<<k, d[k]>>>> \o Items([j \in DOMAIN d \ {k} |-> d[j]])

\* dict.items() of edge_metrics: insertion order, which is host_ips order
RECURSIVE MetricItems(_, _)
MetricItems(em, i) ==
    IF i > Len(host_order) THEN <<>>
    ELSE (IF host_order[i] \in DOMAIN em THEN <<<<host_order[i], em[host_order[i]]>>>> ELSE <<>>)
         \o MetricItems(em, i + 1)

-----------------------------------------------------------------------------
(* Base Station Ranker *)

\* sorted(bs_dict.items(), key = lambda kv: (kv[1], kv[0]))
sort_base_stations(world) == Sorted(Items(world), "dist_id")

\* bs_dict.items() when base_station_list has the stations in the order
\* `actors`, and the sort of it
bs_dict_items(actors, world) == [k \in 1..Len(actors) |-> <<actors[k], world[actors[k]]>>]
bs_sorted(actors, world) == Sorted(bs_dict_items(actors, world), "dist_id")

\* sorted_bs_list[0] if sorted_bs_list else None
find_nearest_base_station(world) ==
    LET sorted_bs_list == sort_base_stations(world)
    IN  IF sorted_bs_list # <<>> THEN sorted_bs_list[1] ELSE <<>>

\* `nearest_bs and nearest_bs[1] < bs_coverage_thresh`
InCoverage(nb) == nb # <<>> /\ nb[2] < bs_coverage_thresh

-----------------------------------------------------------------------------
(* Metrics Collector *)

\* the mean the code stores for a node: res_total / pod_num, res_total the
\* sum over pod_instances
MeanLastOnly(resp) ==
    <<IF resp.pod_instances = <<>> THEN 0 ELSE resp.pod_instances[Len(resp.pod_instances)],
      resp.pod_number>>
MeanLatency(resp) == <<SumSeq(resp.pod_instances), resp.pod_number>>

\* get_metrics against the answers resps[1..], one per node of host_ips in
\* order: [raised, edge_metrics, asked]
RECURSIVE get_metrics_from(_, _, _)
get_metrics_from(resps, i, em) ==
    IF i > Len(host_order) THEN [raised |-> FALSE, edge_metrics |-> em, asked |-> i - 1]
    ELSE LET resp == resps[i]
         IN  IF resp.raises
             THEN [raised |-> TRUE, edge_metrics |-> em, asked |-> i]
             ELSE IF resp.status_code # 200 \/ resp.pod_number = 0
                  THEN get_metrics_from(resps, i + 1, em)
                  ELSE get_metrics_from(resps, i + 1,
                                        (host_order[i] :> MeanLatency(resp)) @@ em)

get_metrics(resps) == get_metrics_from(resps, 1, <<>>)

-----------------------------------------------------------------------------
(* Routing Decision Engine *)

\* sorted(edge_metrics.items(), key=lambda m: m[1])[0][0]; only taken of a
\* non-empty mapping
SelectLast(em) ==
    LET s == Sorted(MetricItems(em, 1), "latency") IN s[Len(s)][1]
SelectOptimal(em) == Sorted(MetricItems(em, 1), "latency")[1][1]

ProxyUrl(ip) == [ip |-> ip, port |-> proxy_port, path |-> "proxy"]
Request(ip, node, appname) == [url |-> ProxyUrl(ip), node |-> node, app |-> appname]
NoRequest == Request("", "", "")

\* what offload_to_optimal does with a given edge_metrics: raise, the cloud
\* fallback, or a request for the batch
RouteOptimalDirect(hostname, appname, em) ==
    IF DOMAIN em = {}
    THEN [kind |-> "raise", node |-> "", req |-> NoRequest]
    ELSE LET best == SelectOptimal(em)
         IN  IF LatAbove(em[best], time_limit)
             THEN [kind |-> "cloud", node |-> best, req |-> NoRequest]
             ELSE [kind |-> "edge", node |-> best,
                   req |-> Request(host_ips[best], best, appname)]
RouteOptimal(hostname, appname, em) ==
    IF DOMAIN em = {}
    THEN [kind |-> "raise", node |-> "", req |-> NoRequest]
    ELSE LET best == SelectOptimal(em)
         IN  IF LatAbove(em[best], time_limit)
             THEN [kind |-> "cloud", node |-> best, req |-> NoRequest]
             ELSE [kind |-> "edge", node |-> best,
                   req |-> Request(host_ips[hostname], best, appname)]

-----------------------------------------------------------------------------
(* The scheduler *)

NoMetrics == [raised |-> FALSE, edge_metrics |-> <<>>, asked |-> 0]
NoRoute == [kind |-> "none", node |-> "", req |-> NoRequest]

SchedInit ==
    /\ counter = <<>>
    /\ invocations = [i \in Instances |-> 0]
    /\ completed = [i \in Instances |-> 0]
    /\ pc = "idle"
    /\ self = ""
    /\ policy = ""
    /\ app = 0
    /\ list_of_urls = <<>>
    /\ nearest_bs = <<>>
    /\ bs_hostname = ""
    /\ optimal_edge = ""
    /\ outcome = "none"
    /\ cloud_posts = <<>>
    /\ replays = 0
    /\ rep = 0
    /\ futures = <<>>
    /\ posts = 0
    /\ exc = "none"

\* the ranker harness is not in use
RankOff ==
    /\ rk_pc = "off"
    /\ rk_actors = <<>>
    /\ rk_world = <<>>
    /\ rk_sorted = <<>>
    /\ rk_nearest = <<>>

Init ==
    /\ SchedInit
    /\ fn_pc = "off"
    /\ fn_resps = <<>>
    /\ fn_metrics = NoMetrics
    /\ fn_route = NoRoute
    /\ RankOff

\* self.counter as an expression: the instance attribute when the instance
\* has one, the class attribute otherwise
ReadClassCounter(i) == class_counter
ReadCounter(i) == IF i \in DOMAIN counter THEN counter[i] ELSE class_counter

\* `self.counter += 1`: the value read through the instance (or the class) plus
\* one is stored as an attribute of the instance, the class attribute is left
SharedCounter(i) == [j \in Instances |-> ReadCounter(i) + 1]
IncrementCounter(i) == (i :> (ReadCounter(i) + 1)) @@ counter

\* an exception leaves the invocation at `site`
Raise(site) ==
    /\ pc' = "idle"
    /\ exc' = site

\* the `for app in self.app_types` header after an iteration; past the last
\* task type, `range(self.counter)` is evaluated
Advance(cur) ==
    IF cur < Len(app_types)
    THEN pc' = "gate" /\ UNCHANGED replays
    ELSE pc' = "replay" /\ replays' = ReadCounter(self)

\* `list_of_urls = []`: a local of the invocation
KeptBatch == list_of_urls
EmptyBatch == <<>>

Call(i, pol) ==
    /\ pc = "idle"
    /\ invocations[i] < MaxInvocations
    /\ invocations' = [invocations EXCEPT ![i] = @ + 1]
    /\ self' = i
    /\ policy' = pol
    /\ app' = 0
    /\ list_of_urls' = EmptyBatch
    /\ nearest_bs' = <<>>
    /\ bs_hostname' = ""
    /\ optimal_edge' = ""
    /\ outcome' = "none"
    /\ cloud_posts' = <<>>
    /\ replays' = 0
    /\ rep' = 0
    /\ futures' = <<>>
    /\ posts' = 0
    /\ exc' = "none"
    /\ pc' = "gate"
    /\ UNCHANGED <<counter, completed>>

offload_to_optimal(i) == Call(i, "optimal") /\ UNCHANGED fn_vars

offload_to_nearest(i) == Call(i, "nearest") /\ UNCHANGED fn_vars

\* self.base_station_roles[nearest_bs[0]] and self.host_ips[bs_hostname] find
\* an entry
HasRole(id) == id \in DOMAIN base_station_roles
HasAddress(id) ==
    /\ id \in DOMAIN base_station_roles
    /\ base_station_roles[id] \in DOMAIN host_ips

\* find_nearest_base_station(), the coverage test and the role and address
\* lookups of one task type, in a world of W
CoverageGateIn(W) ==
    /\ pc = "gate"
    /\ \E world \in W :
        LET nb == find_nearest_base_station(world)
        IN  /\ app' = app + 1
            /\ nearest_bs' = nb
            /\ cloud_posts' = <<>>
            /\ optimal_edge' = ""
            /\ IF InCoverage(nb)
               THEN /\ outcome' = "covered"
                    /\ IF HasAddress(nb[1])
                       THEN /\ bs_hostname' = base_station_roles[nb[1]]
                            /\ pc' = "route"
                            /\ UNCHANGED <<exc, replays>>
                       ELSE /\ bs_hostname' = ""
                            /\ Raise("roles_lookup")
                            /\ UNCHANGED replays
               ELSE /\ outcome' = "uncovered"
                    /\ bs_hostname' = ""
                    /\ Advance(app + 1)
                    /\ UNCHANGED exc
    /\ UNCHANGED <<counter, invocations, completed, self, policy, list_of_urls,
                   rep, futures, posts>>
    /\ UNCHANGED fn_vars

CoverageGate == CoverageGateIn(Worlds)

\* requests.post of /init, then of /run: each may raise
CloudOutcomes == {"ok", "init_unreachable", "run_unreachable"}

\* the batch after the cloud branch: `list_of_urls.append((.../init, req))` is
\* commented out
CloudBatchAppended(batch, appname) ==
    Append(batch, [url |-> [ip |-> "cloud", port |-> 0, path |-> "init"],
                   node |-> "", app |-> appname])
CloudBatch(batch, appname) == batch

\* offload_to_optimal, covered: get_metrics, the selection and the route, the
\* three nodes answering as one of Answers
RouteToOptimalOn(Answers) ==
    /\ pc = "route"
    /\ policy = "optimal"
    /\ \E resps \in Answers, cloud \in CloudOutcomes :
        LET m == get_metrics(resps)
            r == RouteOptimal(bs_hostname, app_types[app], m.edge_metrics)
        IN  IF m.raised
            THEN /\ Raise("metrics_post")
                 /\ UNCHANGED <<replays, list_of_urls, optimal_edge, outcome, cloud_posts>>
            ELSE IF r.kind = "raise"
            THEN /\ Raise("optimal_edge")
                 /\ UNCHANGED <<replays, list_of_urls, optimal_edge, outcome, cloud_posts>>
            ELSE IF r.kind = "cloud"
            THEN /\ optimal_edge' = r.node
                 /\ outcome' = "cloud"
                 /\ list_of_urls' = CloudBatch(list_of_urls, app_types[app])
                 /\ IF cloud = "ok"
                    THEN cloud_posts' = <<"init", "run">> /\ Advance(app) /\ UNCHANGED exc
                    ELSE /\ cloud_posts' = IF cloud = "init_unreachable" THEN <<"init">>
                                           ELSE <<"init", "run">>
                         /\ Raise("cloud_post")
                         /\ UNCHANGED replays
            ELSE /\ optimal_edge' = r.node
                 /\ outcome' = "edge"
                 /\ list_of_urls' = Append(list_of_urls, r.req)
                 /\ Advance(app)
                 /\ UNCHANGED <<exc, cloud_posts>>
    /\ UNCHANGED <<counter, invocations, completed, self, policy, app, nearest_bs,
                   bs_hostname, rep, futures, posts>>
    /\ UNCHANGED fn_vars

RouteToOptimal == RouteToOptimalOn([1..Len(host_order) -> FewMetricsResponses])

\* offload_to_nearest, covered: get_metrics (its result unused) and the route
RouteToNearestOn(Answers) ==
    /\ pc = "route"
    /\ policy = "nearest"
    /\ \E resps \in Answers :
        LET m == get_metrics(resps)
        IN  IF m.raised
            THEN /\ Raise("metrics_post")
                 /\ UNCHANGED <<replays, list_of_urls, outcome>>
            ELSE /\ outcome' = "edge"
                 /\ list_of_urls' =
                        Append(list_of_urls,
                               Request(host_ips[bs_hostname], bs_hostname, app_types[app]))
                 /\ Advance(app)
                 /\ UNCHANGED exc
    /\ UNCHANGED <<counter, invocations, completed, self, policy, app, nearest_bs,
                   bs_hostname, optimal_edge, cloud_posts, rep, futures, posts>>
    /\ UNCHANGED fn_vars

RouteToNearest == RouteToNearestOn([1..Len(host_order) -> FewMetricsResponses])

-----------------------------------------------------------------------------
(* Dispatcher *)

Running(fs) == {j \in 1..Len(fs) : fs[j] = "running"}

InFlight == {<<p, j>> \in (1..Len(futures)) \X (1..Len(app_types)) :
                j <= Len(futures[p]) /\ futures[p][j] = "running"}

\* list(pool.map(...)) has every result, and the `with` block has shut the
\* pool down: every future of the pass has returned
PassNotAwaited(fs) == TRUE
PassComplete(fs) == \A j \in 1..Len(fs) : fs[j] = "done"

\* the result iterator reaches a future that raised
MapRaised(fs) ==
    \E j \in 1..Len(fs) : fs[j] = "failed" /\ \A i \in 1..(j - 1) : fs[i] = "done"

\* shutdown(wait=True): no work item is left to a worker
ShutdownWaited(fs) == \A j \in 1..Len(fs) : fs[j] \notin {"pending", "running"}

\* `with ThreadPoolExecutor(max_workers=4) as pool: pool.map(...)`: a new pool,
\* every request of the batch submitted
SubmitPass ==
    /\ pc = "replay"
    /\ rep < replays
    /\ futures' = Append(futures, [j \in 1..Len(list_of_urls) |-> "pending"])
    /\ pc' = "pool"
    /\ UNCHANGED <<counter, invocations, completed, self, policy, app, list_of_urls,
                   nearest_bs, bs_hostname, optimal_edge, outcome, cloud_posts,
                   replays, rep, posts, exc>>
    /\ UNCHANGED fn_vars

\* a worker thread of pool p takes the next work item and calls post_url
StartPost(p, j) ==
    /\ futures[p][j] = "pending"
    /\ \A i \in 1..(j - 1) : futures[p][i] # "pending"
    /\ Cardinality(Running(futures[p])) < max_workers
    /\ futures' = [futures EXCEPT ![p][j] = "running"]
    /\ posts' = posts + 1
    /\ UNCHANGED <<counter, invocations, completed, pc, self, policy, app, list_of_urls,
                   nearest_bs, bs_hostname, optimal_edge, outcome, cloud_posts,
                   replays, rep, exc>>
    /\ UNCHANGED fn_vars

\* requests.post returns a response (of any status code), or raises
PostResults == {"done", "failed"}

FinishPost(p, j) ==
    /\ futures[p][j] = "running"
    /\ \E result \in PostResults : futures' = [futures EXCEPT ![p][j] = result]
    /\ UNCHANGED <<counter, invocations, completed, pc, self, policy, app, list_of_urls,
                   nearest_bs, bs_hostname, optimal_edge, outcome, cloud_posts,
                   replays, rep, posts, exc>>
    /\ UNCHANGED fn_vars

\* the pass is over: the next `for _ in range(self.counter)` iteration
JoinPass ==
    /\ pc = "pool"
    /\ PassComplete(futures[Len(futures)])
    /\ rep' = rep + 1
    /\ pc' = "replay"
    /\ UNCHANGED <<counter, invocations, completed, self, policy, app, list_of_urls,
                   nearest_bs, bs_hostname, optimal_edge, outcome, cloud_posts,
                   replays, futures, posts, exc>>
    /\ UNCHANGED fn_vars

\* list(pool.map(...)) re-raises the exception of a POST; the iterator cancels
\* the futures no worker has taken
MapRaises ==
    /\ pc = "pool"
    /\ MapRaised(futures[Len(futures)])
    /\ futures' = [futures EXCEPT ![Len(futures)] =
                      [j \in 1..Len(@) |-> IF @[j] = "pending" THEN "cancelled" ELSE @[j]]]
    /\ pc' = "unwind"
    /\ UNCHANGED <<counter, invocations, completed, self, policy, app, list_of_urls,
                   nearest_bs, bs_hostname, optimal_edge, outcome, cloud_posts,
                   replays, rep, posts, exc>>
    /\ UNCHANGED fn_vars

\* the `with` block waits for the running POSTs, then the exception leaves
\* the invocation
Propagate ==
    /\ pc = "unwind"
    /\ ShutdownWaited(futures[Len(futures)])
    /\ Raise("dispatch_post")
    /\ UNCHANGED <<counter, invocations, completed, self, policy, app, list_of_urls,
                   nearest_bs, bs_hostname, optimal_edge, outcome, cloud_posts,
                   replays, rep, futures, posts>>
    /\ UNCHANGED fn_vars

\* self.counter += 1, and the invocation returns
Return ==
    /\ pc = "replay"
    /\ rep = replays
    /\ counter' = IncrementCounter(self)
    /\ completed' = [completed EXCEPT ![self] = @ + 1]
    /\ pc' = "idle"
    /\ UNCHANGED <<invocations, self, policy, app, list_of_urls, nearest_bs,
                   bs_hostname, optimal_edge, outcome, cloud_posts, replays, rep,
                   futures, posts, exc>>
    /\ UNCHANGED fn_vars

-----------------------------------------------------------------------------
(* get_metrics and the routing decision on their own: every combination of *)
(* answers of the three nodes                                              *)

InitFn ==
    /\ SchedInit
    /\ fn_pc = "input"
    /\ fn_resps \in [1..Len(host_order) -> MetricsResponses]
    /\ fn_metrics = NoMetrics
    /\ fn_route = NoRoute
    /\ RankOff

FnGetMetrics ==
    /\ fn_pc = "input"
    /\ fn_metrics' = get_metrics(fn_resps)
    /\ fn_pc' = "collected"
    /\ UNCHANGED <<fn_resps, fn_route>>
    /\ UNCHANGED rk_vars
    /\ UNCHANGED sched_vars

\* the decision of offload_to_optimal for "mobilenet" entered through edge1
FnRoute ==
    /\ fn_pc = "collected"
    /\ ~fn_metrics.raised
    /\ fn_route' = RouteOptimal("edge1", app_types[1], fn_metrics.edge_metrics)
    /\ fn_pc' = "routed"
    /\ UNCHANGED <<fn_resps, fn_metrics>>
    /\ UNCHANGED rk_vars
    /\ UNCHANGED sched_vars

NextFn == FnGetMetrics \/ FnRoute

SpecFn == InitFn /\ [][NextFn]_vars

-----------------------------------------------------------------------------
(* The ranker on its own: every set of base stations, in every order the   *)
(* actor list can have, at every distance                                   *)

\* the sequences that list every element of S once
Orderings(S) == {s \in [1..Cardinality(S) -> S] : \A x \in S : \E k \in DOMAIN s : s[k] = x}

InitRank ==
    /\ SchedInit
    /\ fn_pc = "off"
    /\ fn_resps = <<>>
    /\ fn_metrics = NoMetrics
    /\ fn_route = NoRoute
    /\ rk_pc = "input"
    /\ rk_world \in Worlds
    /\ rk_actors \in Orderings(DOMAIN rk_world)
    /\ rk_sorted = <<>>
    /\ rk_nearest = <<>>

RankSort ==
    /\ rk_pc = "input"
    /\ rk_sorted' = bs_sorted(rk_actors, rk_world)
    /\ rk_pc' = "sorted"
    /\ UNCHANGED <<rk_actors, rk_world, rk_nearest>>
    /\ UNCHANGED <<fn_pc, fn_resps, fn_metrics, fn_route>>
    /\ UNCHANGED sched_vars

RankNearest ==
    /\ rk_pc = "sorted"
    /\ rk_nearest' = find_nearest_base_station(rk_world)
    /\ rk_pc' = "found"
    /\ UNCHANGED <<rk_actors, rk_world, rk_sorted>>
    /\ UNCHANGED <<fn_pc, fn_resps, fn_metrics, fn_route>>
    /\ UNCHANGED sched_vars

NextRank == RankSort \/ RankNearest

SpecRank == InitRank /\ [][NextRank]_vars

-----------------------------------------------------------------------------
Next ==
    \/ offload_to_optimal("A")
    \/ offload_to_nearest("A")
    \/ CoverageGate
    \/ RouteToOptimal
    \/ RouteToNearest
    \/ SubmitPass
    \/ \E p \in 1..Len(futures) : \E j \in 1..Len(futures[p]) : StartPost(p, j)
    \/ \E p \in 1..Len(futures) : \E j \in 1..Len(futures[p]) : FinishPost(p, j)
    \/ JoinPass
    \/ MapRaises
    \/ Propagate
    \/ Return

Spec == Init /\ [][Next]_vars

-----------------------------------------------------------------------------
(* Two scheduler instances, their invocations in any order: the vehicle out *)
(* of reach of any station, or next to station 1 or to the unmapped station *)
(* 3; the three nodes all unreachable or all answering the same latency     *)

FewWorlds ==
    {w \in Worlds : DOMAIN w \in {{}, {1}, {3}}
                    /\ \A id \in DOMAIN w : w[id] < bs_coverage_thresh}

UniformAnswers ==
    {[n \in 1..Len(host_order) |-> r] :
        r \in {Unreachable, Status(200, 1, <<10>>), Status(200, 1, <<20>>)}}

NextAB ==
    \/ \E i \in Instances : offload_to_optimal(i)
    \/ \E i \in Instances : offload_to_nearest(i)
    \/ CoverageGateIn(FewWorlds)
    \/ RouteToOptimalOn(UniformAnswers)
    \/ RouteToNearestOn(UniformAnswers)
    \/ SubmitPass
    \/ \E p \in 1..Len(futures) : \E j \in 1..Len(futures[p]) : StartPost(p, j)
    \/ \E p \in 1..Len(futures) : \E j \in 1..Len(futures[p]) : FinishPost(p, j)
    \/ JoinPass
    \/ MapRaises
    \/ Propagate
    \/ Return

SpecAB == Init /\ [][NextAB]_vars

-----------------------------------------------------------------------------
(* Properties *)

Ran == self # ""
Last(s) == s[Len(s)]

\* C1: in both offload methods the coverage decision is "uncovered" exactly
\* when the ranked list is empty or the nearest distance is strictly greater
\* than the coverage threshold; a distance equal to the threshold is covered.
C1_UncoveredIffBeyondThreshold ==
    outcome # "none" =>
        (outcome = "uncovered" <=>
            (nearest_bs = <<>> \/ nearest_bs[2] > bs_coverage_thresh))

\* C2: offload_to_optimal, covered, with an empty metrics mapping: the task
\* goes to its cloud fallback and no exception leaves the invocation, so no
\* invocation ends at the selection of the optimal node.
C2_EmptyMetricsRoutesToCloud ==
    (Ran /\ policy = "optimal" /\ pc = "idle") => exc # "optimal_edge"

\* C3: with no base station known, the task type decided is POSTed to its
\* cloud fallback URL, /init then /run, and gets no proxy request.
C3_NoStationPostsToCloud ==
    (outcome = "uncovered" /\ nearest_bs = <<>>) =>
        /\ cloud_posts = <<"init", "run">>
        /\ \A k \in 1..Len(list_of_urls) : list_of_urls[k].app # app_types[app]


\* C7: a metrics call whose target is unreachable, or that returns a
\* non-success status, only excludes that node: the decision cycle goes on,
\* so no invocation ends at a metrics POST.
C7_MetricsFailureExcludesNodeOnly ==
    (Ran /\ pc = "idle") => exc # "metrics_post"

PostFailed == \E p \in 1..Len(futures) : \E j \in 1..Len(futures[p]) : futures[p][j] = "failed"
PostCancelled ==
    \E p \in 1..Len(futures) : \E j \in 1..Len(futures[p]) : futures[p][j] = "cancelled"

\* C6: a failing dispatcher POST cancels no sibling request of its pass, and
\* the invocation still runs every replay pass and increments the counter.
C6_FailedPostAbortsNothing ==
    /\ ~PostCancelled
    /\ (pc = "idle" /\ PostFailed) =>
          /\ exc = "none"
          /\ rep = replays
          /\ Len(futures) = replays
          /\ ReadCounter(self) = replays + 1

\* C5 as stated: the N-th offload invocation on an instance that returns has
\* issued len(batch) * N dispatcher POSTs, in N passes.
C5_NthInvocationReplaysNTimes ==
    (Ran /\ pc = "idle" /\ exc = "none") =>
        /\ rep = invocations[self]
        /\ posts = Len(list_of_urls) * invocations[self]

\* C5 amended: an offload invocation that returns has replayed its batch once
\* more than the number of earlier invocations on the instance that returned:
\* it has issued len(batch) * (1 + that number) dispatcher POSTs. completed
\* counts the returning invocation too.
C5_ReplaysOncePerReturnedInvocation ==
    (Ran /\ pc = "idle" /\ exc = "none") =>
        /\ rep = completed[self]
        /\ Len(futures) = completed[self]
        /\ posts = Len(list_of_urls) * completed[self]

C5_Witness ==
    /\ pc = "idle"
    /\ exc = "none"
    /\ invocations["A"] = 2
    /\ completed["A"] = 2
    /\ Len(list_of_urls) = 3
    /\ posts = 6

\* C10: never more than max_workers (4) dispatcher POSTs are in flight.
C10_AtMostPoolWidthInFlight == Cardinality(InFlight) <= max_workers

C10_Witness ==
    /\ Cardinality(InFlight) = max_workers
    /\ replays = 2
    /\ Len(futures) = 2

\* C9: an edge request of offload_to_optimal is addressed to the proxy
\* endpoint of the entry station (the nearest, covered one), and its node
\* field names the node selected as optimal, for the task type decided.
C9_ProxiedThroughEntryStation ==
    (policy = "optimal" /\ outcome = "edge") =>
        /\ list_of_urls # <<>>
        /\ InCoverage(nearest_bs)
        /\ Last(list_of_urls).url =
              [ip |-> host_ips[base_station_roles[nearest_bs[1]]],
               port |-> proxy_port, path |-> "proxy"]
        /\ Last(list_of_urls).node = optimal_edge
        /\ Last(list_of_urls).app = app_types[app]

C9_Witness ==
    /\ policy = "optimal"
    /\ outcome = "edge"
    /\ base_station_roles[nearest_bs[1]] = "edge1"
    /\ Last(list_of_urls).node = "edge2"
    /\ Last(list_of_urls).url.ip = host_ips["edge1"]


\* node i of host_ips answered with success and at least one pod
Answered(i) ==
    /\ ~fn_resps[i].raises
    /\ fn_resps[i].status_code = 200
    /\ fn_resps[i].pod_number >= 1

HostIndex(h) == CHOOSE i \in 1..Len(host_order) : host_order[i] = h

C4_SelectsMinimumAndGatesOnCeiling ==
    (fn_pc = "routed" /\ DOMAIN fn_metrics.edge_metrics # {}) =>
        LET em == fn_metrics.edge_metrics
            h == fn_route.node
        IN  /\ h \in DOMAIN em
            /\ \A g \in DOMAIN em :
                  /\ ~LatLess(em[g], em[h])
                  /\ LatEq(em[g], em[h]) => HostIndex(h) <= HostIndex(g)
            /\ fn_route.kind = "cloud" <=> LatAbove(em[h], time_limit)
            /\ fn_route.kind = "edge" <=> ~LatAbove(em[h], time_limit)
            /\ fn_route.kind = "edge" => fn_route.req.node = h

C4_Witness ==
    /\ fn_pc = "routed"
    /\ fn_metrics.edge_metrics =
          ("edge1" :> <<20, 1>>) @@ ("edge2" :> <<30, 2>>) @@ ("edge3" :> <<30, 2>>)
    /\ fn_route.kind = "edge"
    /\ fn_route.node = "edge2"


\* the value `self.counter` has for instance i
CounterValue(i) == IF i \in DOMAIN counter THEN counter[i] ELSE class_counter

Settled(fs) == \A j \in 1..Len(fs) : fs[j] \in {"done", "failed", "cancelled"}
Untouched(fs) == \A j \in 1..Len(fs) : fs[j] = "pending"

\* C11: replay passes are separated by a barrier: while a POST of one pass
\* has not completed no POST of a later pass has started, and the invocation
\* has neither returned nor incremented the counter while a POST of its last
\* pass has not completed.
C11_PassesSeparatedByBarrier ==
    /\ \A p \in 1..Len(futures) : \A q \in 1..Len(futures) :
          (p < q /\ ~Settled(futures[p])) => Untouched(futures[q])
    /\ \A p \in 1..Len(futures) :
          ~Settled(futures[p]) =>
              /\ pc \in {"pool", "unwind"}
              /\ p = Len(futures)
              /\ CounterValue(self) = replays

C11_Witness ==
    /\ Len(futures) = 2
    /\ Len(futures[1]) = 3
    /\ Settled(futures[1])
    /\ futures[2] = <<"done", "running", "pending">>

\* C12 as stated: the counter starts at 1 and every offload invocation adds
\* exactly 1, so after k invocations on an instance its value is k + 1.
C12_CounterCountsInvocations ==
    pc = "idle" => \A i \in Instances : CounterValue(i) = invocations[i] + 1

\* C12 amended: the counter starts at 1, every offload invocation that
\* returns adds exactly 1 (empty batch or not, covered or not), an invocation
\* that raises leaves it as it was, and nothing else changes it: its value is
\* 1 + the number of invocations that returned.
C12_CounterCountsReturnedInvocations ==
    \A i \in Instances : CounterValue(i) = completed[i] + 1

C12_Witness ==
    /\ pc = "idle"
    /\ invocations["A"] = 2
    /\ completed["A"] = 1
    /\ CounterValue("A") = 2
    /\ exc = "roles_lookup"


\* the replay loop of the running invocation has read range(self.counter)
Replaying == pc \in {"replay", "pool", "unwind"}

\* C13 as stated: with two instances invoked in any order, the replay factor
\* of an invocation depends only on the number of earlier invocations on its
\* own instance: it is that number plus one.
C13_FactorCountsOwnInvocations ==
    Replaying => replays = invocations[self]

\* C13 amended: with two instances invoked in any order, the replay factor of
\* an invocation is 1 + the number of earlier invocations on its own instance
\* that returned, whatever was invoked on the other instance.
C13_FactorCountsOwnReturnedInvocations ==
    Replaying => replays = completed[self] + 1

C13_Witness ==
    /\ pc = "pool"
    /\ self = "A"
    /\ invocations["A"] = 1
    /\ completed["B"] = 2
    /\ "A" \notin DOMAIN counter
    /\ replays = 1
    /\ Len(list_of_urls) = 2


\* C14: in offload_to_nearest a covered task type (its station having a role
\* and an address) is always routed to that station, request addressed to
\* the station's proxy, node = the station's role; whatever the nodes answer
\* to the metrics calls, once the gate is passed the task type is being
\* routed or has its request, and the invocation has not failed.
C14_NearestRoutesWhateverTheMetrics ==
    (policy = "nearest" /\ InCoverage(nearest_bs) /\ bs_hostname # "") =>
        IF outcome = "edge"
        THEN /\ list_of_urls # <<>>
             /\ Last(list_of_urls) =
                   Request(host_ips[base_station_roles[nearest_bs[1]]],
                           base_station_roles[nearest_bs[1]], app_types[app])
        ELSE pc = "route" /\ exc = "none"


NoAddressFor(id) ==
    \/ id \notin DOMAIN base_station_roles
    \/ base_station_roles[id] \notin DOMAIN host_ips

\* C16: when the covered nearest station has no role mapping, or its role no
\* address mapping, the invocation raises at that lookup; the step that
\* raises leaves the counter as it was, and none of the requests the
\* invocation has accumulated is ever dispatched.
C16_MissingMappingRaisesAtLookup ==
    /\ [][(pc = "gate" /\ InCoverage(nearest_bs') /\ NoAddressFor(nearest_bs'[1])) =>
            /\ pc' = "idle"
            /\ exc' = "roles_lookup"
            /\ counter' = counter
            /\ completed' = completed]_vars
    /\ []((InCoverage(nearest_bs) /\ NoAddressFor(nearest_bs[1])) =>
            /\ pc = "idle"
            /\ exc = "roles_lookup"
            /\ posts = 0
            /\ futures = <<>>
            /\ CounterValue(self) = completed[self] + 1
            /\ completed[self] < invocations[self])

C16_Witness ==
    /\ exc = "roles_lookup"
    /\ policy = "optimal"
    /\ Len(list_of_urls) = 2
    /\ app = 3
    /\ nearest_bs[1] = 2
    /\ completed[self] = 1
    /\ CounterValue(self) = 2
    /\ posts = 0


BatchApps(batch) ==
    [k \in 1..Len(batch) |-> CHOOSE a \in 1..Len(app_types) : app_types[a] = batch[k].app]

\* C18: the batch starts empty in every invocation and holds at most one
\* request per task type, only for task types this invocation has decided,
\* in the order decided; every replay pass submits exactly the requests of
\* this batch, so no request of an earlier invocation is dispatched again.
C18_BatchRebuiltEveryInvocation ==
    /\ (pc = "gate" /\ app = 0) => (list_of_urls = <<>> /\ futures = <<>>)
    /\ \A k \in 1..Len(list_of_urls) :
          /\ \E a \in 1..app : app_types[a] = list_of_urls[k].app
          /\ \A l \in 1..(k - 1) : BatchApps(list_of_urls)[l] < BatchApps(list_of_urls)[k]
    /\ Len(list_of_urls) <= Len(app_types)
    /\ \A p \in 1..Len(futures) : Len(futures[p]) = Len(list_of_urls)
    /\ (pc \in {"gate", "route"}) => (futures = <<>>)

C18_Witness ==
    /\ invocations["A"] = 2
    /\ completed["A"] = 1
    /\ pc = "pool"
    /\ Len(list_of_urls) = 1
    /\ list_of_urls[1].app = "binaryalert"
    /\ Len(futures) = 2
    /\ futures[2] = <<"running">>

====
